---- MODULE Spec2Model ----
(***************************************************************************)
(* Model of nad_receiver.NADReceiverTCPC338 (src/nad_receiver/__init__.py) *)
(* and of the C338 command table (src/nad_receiver/nad_commands.py).       *)
(*                                                                         *)
(* The object lives on one asyncio event loop.  Every action below is one  *)
(* run of a task between two suspension points (an await that really       *)
(* suspends), so it is atomic exactly where the code is.                   *)
(*                                                                         *)
(* Text is a sequence of tokens: W(s) a word, Num(n) the decimal text of   *)
(* the integer n ("-12"), Dec(n) the decimal text of the float n ("-12.0").*)
(* Python values are tagged records (PNone, PBool, PInt, PFloat, PStr).    *)
(***************************************************************************)
EXTENDS Integers, Sequences, FiniteSets, TLC

\* Bounds of the exploration: consecutive failed connection attempts read
\* under one pending debounce task, status() calls in progress at once.
MaxFailures == 3
MaxBurst == 2
MaxStatus == 2


----------------------------------------------------------------------------
\* Text and Python values

W(s) == [w |-> s]
Num(n) == [int |-> n]
Dec(n) == [dec |-> n]

NL == W("\n")
Whitespace == {W("\n"), W("\r"), W(" ")}

PNone == [ty |-> "none"]
PBool(b) == [ty |-> "bool", v |-> b]
PInt(n) == [ty |-> "int", v |-> n]
PFloat(n) == [ty |-> "float", v |-> n]
PStr(t) == [ty |-> "str", v |-> t]

\* str.strip(): leading and trailing whitespace removed.
RECURSIVE LStrip(_)
LStrip(t) ==
    IF t # <<>> /\ Head(t) \in Whitespace THEN LStrip(Tail(t)) ELSE t

RECURSIVE RStrip(_)
RStrip(t) ==
    IF t # <<>> /\ t[Len(t)] \in Whitespace
    THEN RStrip(SubSeq(t, 1, Len(t) - 1))
    ELSE t

Strip(t) == RStrip(LStrip(t))

\* str.split('='): the segments between the '=' tokens.
RECURSIVE SplitEq(_, _)
SplitEq(t, cur) ==
    IF t = <<>> THEN <<cur>>
    ELSE IF Head(t) = W("=") THEN <<cur>> \o SplitEq(Tail(t), <<>>)
    ELSE SplitEq(Tail(t), Append(cur, Head(t)))

Split(t) == SplitEq(t, <<>>)

\* float(text), int(text): [ok, v].
ToFloat(t) ==
    IF Len(t) = 1 /\ DOMAIN t[1] = {"int"} THEN [ok |-> TRUE, v |-> PFloat(t[1].int)]
    ELSE IF Len(t) = 1 /\ DOMAIN t[1] = {"dec"} THEN [ok |-> TRUE, v |-> PFloat(t[1].dec)]
    ELSE [ok |-> FALSE, v |-> PNone]

ToInt(t) ==
    IF Len(t) = 1 /\ DOMAIN t[1] = {"int"} THEN [ok |-> TRUE, v |-> PInt(t[1].int)]
    ELSE [ok |-> FALSE, v |-> PNone]

\* list.index(text) on a list of words, 0-based; -1 stands for ValueError.
IndexOf(values, t) ==
    IF \E i \in 1..Len(values) : t = <<W(values[i])>>
    THEN (CHOOSE i \in 1..Len(values) : t = <<W(values[i])>>) - 1
    ELSE -1

\* str(value)
StrOf(val) ==
    CASE val.ty = "float" -> <<Dec(val.v)>>
      [] val.ty = "int" -> <<Num(val.v)>>
      [] val.ty = "bool" -> <<W(IF val.v THEN "True" ELSE "False")>>
      [] val.ty = "str" -> val.v
      [] OTHER -> <<W("None")>>

----------------------------------------------------------------------------
\* nad_commands

MSG_ON == "On"
MSG_OFF == "Off"
OnOff == <<MSG_OFF, MSG_ON>>

AllOps == {"+", "-", "=", "?"}

BoolCmd == [supported_operators |-> AllOps, values |-> OnOff, type |-> "bool"]

C338_CMDS ==
    [k \in {"Main", "Main.AnalogGain", "Main.Brightness", "Main.Mute", "Main.Power",
            "Main.Volume", "Main.Bass", "Main.ControlStandby", "Main.AutoStandby",
            "Main.AutoSense", "Main.Source", "Main.Version", "Main.Model"} |->
        CASE k = "Main" -> [supported_operators |-> {"?"}]
          [] k = "Main.AnalogGain" ->
                [supported_operators |-> AllOps, values |-> {}, type |-> "int"]
          [] k = "Main.Brightness" ->
                [supported_operators |-> AllOps, values |-> 0..3, type |-> "int"]
          [] k = "Main.Volume" ->
                [supported_operators |-> AllOps, values |-> (-80)..(-1), type |-> "float"]
          [] k = "Main.Source" ->
                [supported_operators |-> AllOps,
                 values |-> <<"Stream", "Wireless", "TV", "Phono",
                              "Coax1", "Coax2", "Opt1", "Opt2">>]
          [] k = "Main.Version" -> [supported_operators |-> {"?"}, type |-> "float"]
          [] k = "Main.Model" -> [supported_operators |-> {"?"}, values |-> <<"NADC338">>]
          [] OTHER -> BoolCmd]

HasType(desc) == "type" \in DOMAIN desc
HasValues(desc) == "values" \in DOMAIN desc

----------------------------------------------------------------------------
\* DeviceState: a dict from command key to Python value.

EmptyState == [k \in {} |-> PNone]

Put(st, key, val) == [k \in DOMAIN st \cup {key} |-> IF k = key THEN val ELSE st[k]]

\* _parse_data up to the state update: [raise, state].  raise is "none" or the
\* name of the exception that leaves _parse_data.
\* Faulty variant: a volume update that leaves Main.Mute alone.
VolumeKeepsMute(st, key) == st

VolumeUnmutes(st, key) ==
    IF key = "Main.Volume" THEN Put(st, "Main.Mute", PBool(FALSE)) ELSE st

Convert(desc, value) ==
    IF HasType(desc)
    THEN IF desc.type = "bool"
         THEN LET i == IndexOf(desc.values, value)
              IN [ok |-> i >= 0, v |-> PBool(i > 0)]
         ELSE IF desc.type = "float" THEN ToFloat(value) ELSE ToInt(value)
    ELSE [ok |-> TRUE, v |-> PStr(value)]

ParseData(st, data) ==
    LET parts == Split(data) IN
    IF Len(parts) # 2 THEN [raise |-> "ValueError", state |-> st]
    ELSE IF ~(\E k \in DOMAIN C338_CMDS : parts[1] = <<W(k)>>)
    THEN [raise |-> "KeyError", state |-> st]
    ELSE LET key == CHOOSE k \in DOMAIN C338_CMDS : parts[1] = <<W(k)>>
             conv == Convert(C338_CMDS[key], parts[2])
         IN IF ~conv.ok THEN [raise |-> "ValueError", state |-> st]
            ELSE [raise |-> "none", state |-> VolumeUnmutes(Put(st, key, conv.v), key)]

\* Faulty variant: every value passes for a member of the domain.
InValuesAny(desc, value) == TRUE

\* exec_command: [raise, out].  out is the text handed to writer.write.
InValues(desc, value) ==
    LET values == desc.values IN
    IF HasType(desc)
    THEN CASE value.ty \in {"int", "float"} -> value.v \in values
           [] value.ty = "bool" -> (IF value.v THEN 1 ELSE 0) \in values
           [] OTHER -> FALSE
    ELSE value.ty = "str" /\ \E i \in 1..Len(values) : value.v = <<W(values[i])>>

BoolText(values, value) ==
    CASE value.ty = "bool" -> [raise |-> "none", v |-> PStr(<<W(values[IF value.v THEN 2 ELSE 1])>>)]
      [] value.ty \in {"int", "float"} ->
            IF value.v \in (-2)..1
            THEN [raise |-> "none", v |-> PStr(<<W(values[(value.v % 2) + 1])>>)]
            ELSE [raise |-> "IndexError", v |-> value]
      [] OTHER -> [raise |-> "ValueError", v |-> value]

Encode(command, operator, desc, value) ==
    IF value = PNone THEN [raise |-> "none", out |-> <<W(command), W(operator)>>]
    ELSE IF HasValues(desc) /\ HasType(desc) /\ desc.type = "bool"
    THEN LET b == BoolText(desc.values, value)
         IN [raise |-> b.raise, out |-> <<W(command), W(operator)>> \o StrOf(b.v)]
    ELSE IF HasValues(desc) /\ ~InValues(desc, value)
    THEN [raise |-> "ValueError", out |-> <<>>]
    ELSE [raise |-> "none", out |-> <<W(command), W(operator)>> \o StrOf(value)]

\* Faulty variant: the command is written whether or not a connection is open.
ExecCommandAlways(hasWriter, eofWritten, command, operator, value) ==
    [raise |-> "none", out |-> <<W(command), W(operator)>>]

ExecCommand(hasWriter, eofWritten, command, operator, value) ==
    IF ~hasWriter THEN [raise |-> "none", out |-> <<>>]
    ELSE IF command \notin DOMAIN C338_CMDS THEN [raise |-> "KeyError", out |-> <<>>]
    ELSE LET desc == C338_CMDS[command] IN
         IF operator \notin desc.supported_operators
         THEN [raise |-> "ValueError", out |-> <<>>]
         ELSE IF operator = "=" /\ value = PNone THEN [raise |-> "ValueError", out |-> <<>>]
         ELSE IF operator \in {"?", "-", "+"} /\ value # PNone
         THEN [raise |-> "ValueError", out |-> <<>>]
         ELSE LET e == Encode(command, operator, desc, value) IN
              IF e.raise # "none" THEN [raise |-> e.raise, out |-> <<>>]
              ELSE IF eofWritten THEN [raise |-> "RuntimeError", out |-> <<>>]
              ELSE e

----------------------------------------------------------------------------
\* The receiver object, its tasks and its transport

VARIABLES
    state,                \* _state
    state_changed_cb,     \* whether a _state_changed_cb was given
    writer,               \* _reader and _writer are set (both or neither)
    can_write_eof,        \* the open transport supports a half-close
    eof_written,          \* write_eof() was called on the open transport
    connection_task,      \* _connection_task: where it is, or how it ended
    cancel_requested,     \* _connection_task.cancel() was called, not yet delivered
    run_loop,             \* where run_loop is, or how it ended
    state_changed_waiter, \* _state_changed_waiter: "none" for None, or the state
                          \* of the future it holds
    awaiting,             \* status() calls suspended on that future
    replaced,             \* status() calls suspended on futures the attribute no
                          \* longer holds, by the state of their future
    state_changed_task,   \* _state_changed_task: the debounce task it holds
    sleeping,             \* _state_changed tasks created and still in their sleep
    \* what the last step did, as an observer sees it
    notified,             \* the change-callback invocations it made
    returned,             \* the status() calls it completed
    written,              \* the text it handed to writer.write
    request,              \* the exec_command call a caller made: <<>> or
                          \* <<[command, operator, value]>>
    \* history
    trace,                \* run_loop's attempts, failures, sleeps and opens, in order,
                          \* since it started or since the last session ended
    burst,                \* the raw lines applied to _state under the pending
                          \* debounce task, in order
    disconnect_called     \* disconnect() was called

vars == <<state, state_changed_cb, writer, can_write_eof, eof_written,
          connection_task, cancel_requested, run_loop,
          state_changed_waiter, awaiting, replaced, state_changed_task,
          sleeping, notified, returned, written, request, trace, burst,
          disconnect_called>>

\* The raw lines the device may send (readline() results, terminator included).
VolumeLine(n) == <<W("Main.Volume"), W("="), Num(n), NL>>
MuteLine(t) == <<W("Main.Mute"), W("="), W(t), NL>>

Volumes == {-12, -20}

InLines ==
    { VolumeLine(n) : n \in Volumes } \cup { MuteLine(MSG_ON), MuteLine(MSG_OFF),
      <<NL>>,                                            \* a blank line
      <<W("garbage"), NL>>,                              \* no '='
      <<W("Main.Foo"), W("="), Num(1), NL>>,             \* unregistered key
      <<W("Main.Volume"), W("="), W("loud"), NL>> }      \* not a number

\* Task outcomes
ConnectErrors == {"ConnectionRefusedError", "TimeoutError"}
ReadErrors == {"OSError"}
Recoverable == {"ConnectionRefusedError", "OSError", "TimeoutError"}
Done == {"returned", "cancelled", "ValueError", "KeyError"} \cup Recoverable

transport == <<writer, can_write_eof, eof_written>>
waiters == <<state_changed_waiter, awaiting, replaced>>
debounce == <<state_changed_task, sleeping, burst>>

Count(seq, e) == Cardinality({i \in 1..Len(seq) : seq[i] = e})

FutureStates == {"pending", "resolved", "cancelled"}
InProgress == awaiting + replaced["pending"] + replaced["resolved"] + replaced["cancelled"]

Init ==
    /\ state = EmptyState
    /\ state_changed_cb \in BOOLEAN
    /\ writer = FALSE
    /\ can_write_eof = FALSE
    /\ eof_written = FALSE
    /\ connection_task = "none"
    /\ cancel_requested = FALSE
    /\ run_loop = "new"
    /\ state_changed_waiter = "none"
    /\ awaiting = 0
    /\ replaced = [f \in FutureStates |-> 0]
    /\ state_changed_task = "none"
    /\ sleeping = 0
    /\ notified = <<>>
    /\ returned = <<>>
    /\ written = <<>>
    /\ request = <<>>
    /\ trace = <<>>
    /\ burst = <<>>
    /\ disconnect_called = FALSE

\* A step that invokes no callback, completes no call and writes nothing.
Quiet == notified' = <<>> /\ returned' = <<>> /\ written' = <<>> /\ request' = <<>>

\* self._state_changed_cb(self._state), when a callback was given: what it is
\* handed, and the waiter it would find.
Callback(st, w) ==
    IF state_changed_cb THEN <<[state |-> st, waiter |-> w]>> ELSE <<>>

\* Faulty variant: the waiter is left pending by the cleanup.
CancelFutureNot(f) == f

\* future.cancel(): a pending future becomes cancelled, a done one is left alone.
CancelFuture(f) == IF f = "pending" THEN "cancelled" ELSE f

\* Faulty variant: the debounce task is not cancelled by the cleanup.
CancelTaskNot(t) == t

\* task.cancel() on the debounce task.
CancelTask(t) == IF t = "pending" THEN "cancelled" ELSE t

\* Faulty variant: the callback is invoked before the state is cleared.
ClearedCallbackEarly(st, w) == IF st # EmptyState THEN Callback(st, w) ELSE <<>>

\* The end of the finally block: a state that held something is cleared and the
\* callback is given the cleared state.
ClearedCallback(st, w) == IF st # EmptyState THEN Callback(EmptyState, w) ELSE <<>>

\* Faulty variant: a cleanup that does not clear the state.
CleanupKeepsState ==
    /\ state_changed_waiter' = CancelFuture(state_changed_waiter)
    /\ state_changed_task' = CancelTask(state_changed_task)
    /\ sleeping' = IF state_changed_task' # state_changed_task THEN sleeping - 1
                    ELSE sleeping
    /\ writer' = FALSE
    /\ state' = state
    /\ notified' = ClearedCallback(state, state_changed_waiter')
    /\ returned' = <<>>
    /\ burst' = <<>>
    /\ cancel_requested' = FALSE
    /\ can_write_eof' = FALSE
    /\ eof_written' = FALSE
    /\ written' = <<>>
    /\ request' = <<>>
    /\ UNCHANGED <<state_changed_cb, awaiting, replaced>>

\* The finally block of _connection_loop.
Cleanup ==
    /\ state_changed_waiter' = CancelFuture(state_changed_waiter)
    /\ state_changed_task' = CancelTask(state_changed_task)
    /\ sleeping' = IF state_changed_task' # state_changed_task THEN sleeping - 1
                    ELSE sleeping
    /\ writer' = FALSE
    /\ state' = EmptyState
    /\ notified' = ClearedCallback(state, state_changed_waiter')
    /\ returned' = <<>>
    /\ burst' = <<>>
    /\ cancel_requested' = FALSE
    /\ can_write_eof' = FALSE
    /\ eof_written' = FALSE
    /\ written' = <<>>
    /\ request' = <<>>
    /\ UNCHANGED <<state_changed_cb, awaiting, replaced>>

\* run_loop: create the connection task and await it.
CreateConnectionTask ==
    /\ connection_task' = "connecting"
    /\ run_loop' = "await"

RunLoopStart ==
    /\ run_loop = "new"
    /\ CreateConnectionTask
    /\ trace' = Append(trace, "attempt")
    /\ Quiet
    /\ UNCHANGED <<state, state_changed_cb, transport, cancel_requested, waiters,
                   debounce, disconnect_called>>

\* Faulty variants: end-of-stream is retried like a transport error; a cancelled session
\* ends run_loop cancelled.
AfterSessionRetriesEof(outcome) ==
    CASE outcome = "cancelled" -> "returned"
      [] outcome \in Recoverable \cup {"returned"} -> "sleep"
      [] OTHER -> outcome

AfterSessionPropagates(outcome) ==
    CASE outcome = "returned" -> "returned"
      [] outcome \in Recoverable -> "sleep"
      [] OTHER -> outcome

\* What run_loop does with the outcome of the connection task it awaited.
AfterSession(outcome) ==
    CASE outcome \in {"returned", "cancelled"} -> "returned"
      [] outcome \in Recoverable -> "sleep"
      [] OTHER -> outcome

\* run_loop resumes when the awaited connection task is done.
RunLoopResume ==
    /\ run_loop = "await"
    /\ connection_task \in Done
    /\ run_loop' = AfterSession(connection_task)
    /\ Quiet
    /\ UNCHANGED <<state, state_changed_cb, transport, connection_task,
                   cancel_requested, waiters, debounce, trace, disconnect_called>>

\* asyncio.sleep(reconnect_timeout) is over: the next turn of the while loop.
RunLoopRetry ==
    /\ run_loop = "sleep"
    /\ CreateConnectionTask
    /\ trace' = trace \o <<"sleep", "attempt">>
    /\ Quiet
    /\ UNCHANGED <<state, state_changed_cb, transport, cancel_requested, waiters,
                   debounce, disconnect_called>>

\* _connection_loop: open_connection succeeds, the seed query is written and the
\* first readline() suspends.
\* Faulty variant: no seed query after connecting.
NoSeedQuery == <<>>

SeedQuery == ExecCommand(TRUE, FALSE, "Main", "?", PNone).out

ConnectOk ==
    /\ connection_task = "connecting"
    /\ writer' = TRUE
    /\ can_write_eof' \in BOOLEAN
    /\ eof_written' = FALSE
    /\ written' = SeedQuery
    /\ connection_task' = "reading"
    /\ trace' = Append(trace, "open")
    /\ notified' = <<>>
    /\ returned' = <<>>
    /\ request' = <<>>
    /\ UNCHANGED <<state, state_changed_cb, cancel_requested, run_loop, waiters,
                   debounce, disconnect_called>>

\* open_connection raises: the finally block runs and the task ends with the error.
ConnectFail ==
    /\ connection_task = "connecting"
    /\ Count(trace, "fail") < MaxFailures
    /\ \E e \in ConnectErrors : connection_task' = e
    /\ Cleanup
    /\ trace' = Append(trace, "fail")
    /\ UNCHANGED <<run_loop, disconnect_called>>

\* Faulty variant: every line creates a debounce task.
StartStateChangedAlways(data) ==
    /\ state_changed_task' = "pending"
    /\ sleeping' = sleeping + 1
    /\ burst' = Append(burst, data)

\* _parse_data, after the state update: the debounce task is created unless one
\* is pending.
StartStateChanged(data) ==
    IF state_changed_task # "pending"
    THEN /\ state_changed_task' = "pending"
         /\ sleeping' = sleeping + 1
         /\ burst' = <<data>>
    ELSE /\ burst' = Append(burst, data)
         /\ UNCHANGED <<state_changed_task, sleeping>>

\* The read loop: readline() returns a line.  A line _parse_data cannot handle
\* raises out of the loop: the finally block runs and the task ends with the
\* exception.
ReadData(data) ==
    /\ connection_task = "reading"
    /\ ~cancel_requested
    /\ LET r == ParseData(state, Strip(data)) IN
       IF r.raise = "none"
       THEN /\ state' = r.state
            /\ StartStateChanged(data)
            /\ Quiet
            /\ UNCHANGED <<transport, connection_task, cancel_requested,
                           state_changed_waiter, trace>>
       ELSE /\ Cleanup
            /\ connection_task' = r.raise
            /\ trace' = <<>>
    /\ UNCHANGED <<state_changed_cb, run_loop, awaiting, replaced, disconnect_called>>

ReadLine ==
    /\ state_changed_task = "pending" => Len(burst) < MaxBurst
    /\ \E data \in InLines : ReadData(data)

\* The read loop: readline() returns b'' at end of stream.
ReadEof ==
    /\ connection_task = "reading"
    /\ ~cancel_requested
    /\ Cleanup
    /\ connection_task' = "returned"
    /\ trace' = <<>>
    /\ UNCHANGED <<run_loop, disconnect_called>>

\* The read loop: readline() raises a transport error.
ReadError ==
    /\ connection_task = "reading"
    /\ ~cancel_requested
    /\ \E e \in ReadErrors : connection_task' = e
    /\ Cleanup
    /\ trace' = <<"fail">>
    /\ UNCHANGED <<run_loop, disconnect_called>>

\* The read loop: the CancelledError of _connection_task.cancel() is delivered.
ReadCancelled ==
    /\ connection_task = "reading"
    /\ cancel_requested
    /\ Cleanup
    /\ connection_task' = "cancelled"
    /\ trace' = <<>>
    /\ UNCHANGED <<run_loop, disconnect_called>>

\* _state_changed after its sleep: the callback, then set_result on the waiter.
\* set_result on a future that is already done raises InvalidStateError and the
\* task ends failed.
\* Faulty variant: the debounce task leaves the waiter as it is.
SetResultNot(f) == f

SetResult(f) == IF f = "pending" THEN "resolved" ELSE f

StateChanged ==
    /\ sleeping > 0
    /\ sleeping' = sleeping - 1
    /\ notified' = Callback(state, state_changed_waiter)
    /\ state_changed_waiter' = SetResult(state_changed_waiter)
    /\ state_changed_task' =
          IF sleeping > 1 THEN state_changed_task
          ELSE IF state_changed_waiter \in {"none", "pending"} THEN "done"
          ELSE "failed"
    /\ burst' = IF sleeping > 1 THEN burst ELSE <<>>
    /\ returned' = <<>>
    /\ written' = <<>>
    /\ request' = <<>>
    /\ UNCHANGED <<state, state_changed_cb, transport, connection_task,
                   cancel_requested, run_loop, awaiting, replaced, trace,
                   disconnect_called>>

\* disconnect(), up to its await of the connection task (which changes nothing
\* here: the caller gets the task's outcome).
Disconnect ==
    /\ IF writer
       THEN IF can_write_eof
            THEN /\ eof_written' = TRUE
                 /\ UNCHANGED cancel_requested
            ELSE /\ cancel_requested' = TRUE
                 /\ UNCHANGED eof_written
       ELSE UNCHANGED <<eof_written, cancel_requested>>
    /\ disconnect_called' = TRUE
    /\ Quiet
    /\ UNCHANGED <<state, state_changed_cb, writer, can_write_eof, connection_task,
                   run_loop, waiters, debounce, trace>>

\* Faulty variant: every status() call creates a new future.
NeverReuseWaiter == FALSE

\* status(), up to its await of the waiter: a pending waiter is reused, otherwise
\* a new future replaces the one the attribute holds.
ReuseWaiter == state_changed_waiter = "pending"

\* Faulty variant: a status() call that reuses the waiter sends no query.
StatusQueryOnce ==
    IF state_changed_waiter = "pending" THEN [raise |-> "none", out |-> <<>>]
    ELSE ExecCommand(writer, eof_written, "Main", "?", PNone)

StatusQuery == ExecCommand(writer, eof_written, "Main", "?", PNone)

Status ==
    /\ InProgress < MaxStatus
    /\ state_changed_waiter' = "pending"
    /\ LET r == StatusQuery
           calls == IF r.raise = "none" THEN 1 ELSE 0
       IN /\ written' = r.out
          /\ returned' = IF r.raise = "none" THEN <<>>
                         ELSE <<[outcome |-> r.raise, state |-> EmptyState]>>
          /\ IF ReuseWaiter
             THEN /\ awaiting' = awaiting + calls
                  /\ UNCHANGED replaced
             ELSE /\ awaiting' = calls
                  /\ replaced' = IF state_changed_waiter = "none" THEN replaced
                                 ELSE [replaced EXCEPT ![state_changed_waiter] = @ + awaiting]
    /\ notified' = <<>>
    /\ request' = <<>>
    /\ UNCHANGED <<state, state_changed_cb, transport, connection_task,
                   cancel_requested, run_loop, debounce, trace, disconnect_called>>

\* A suspended status() resumes when the future it awaits is done: it returns
\* _state, or the CancelledError of a cancelled future leaves it.
Resumed(f) ==
    IF f = "resolved" THEN <<[outcome |-> "returned", state |-> state]>>
    ELSE <<[outcome |-> "CancelledError", state |-> EmptyState]>>

StatusResume ==
    /\ \/ /\ awaiting > 0
          /\ state_changed_waiter \in {"resolved", "cancelled"}
          /\ awaiting' = awaiting - 1
          /\ returned' = Resumed(state_changed_waiter)
          /\ UNCHANGED replaced
       \/ \E f \in {"resolved", "cancelled"} :
             /\ replaced[f] > 0
             /\ replaced' = [replaced EXCEPT ![f] = @ - 1]
             /\ returned' = Resumed(f)
             /\ UNCHANGED awaiting
    /\ notified' = <<>>
    /\ written' = <<>>
    /\ request' = <<>>
    /\ UNCHANGED <<state, state_changed_cb, transport, connection_task,
                   cancel_requested, run_loop, state_changed_waiter, debounce, trace,
                   disconnect_called>>

\* The task of a caller suspended in status() is cancelled (its own timeout, for
\* one).  Task.cancel() cancels the future the task awaits: status() awaits the
\* waiter itself, so a pending waiter becomes cancelled, and every call suspended
\* on it resumes later with CancelledError.  When the future is already done the
\* cancelled call gets CancelledError in place of its result.
StatusCancel ==
    /\ \/ /\ awaiting > 0
          /\ state_changed_waiter = "pending"
          /\ state_changed_waiter' = "cancelled"
          /\ returned' = <<>>
          /\ UNCHANGED <<awaiting, replaced>>
       \/ /\ awaiting > 0
          /\ state_changed_waiter = "resolved"
          /\ awaiting' = awaiting - 1
          /\ returned' = Resumed("cancelled")
          /\ UNCHANGED <<state_changed_waiter, replaced>>
       \/ /\ replaced["resolved"] > 0
          /\ replaced' = [replaced EXCEPT !["resolved"] = @ - 1]
          /\ returned' = Resumed("cancelled")
          /\ UNCHANGED <<state_changed_waiter, awaiting>>
    /\ notified' = <<>>
    /\ written' = <<>>
    /\ request' = <<>>
    /\ UNCHANGED <<state, state_changed_cb, transport, connection_task,
                   cancel_requested, run_loop, debounce, trace, disconnect_called>>

\* exec_command(command, operator, value) as a caller makes it, and the facade
\* verbs built on it.
Request(command, operator, value) ==
    [command |-> command, operator |-> operator, value |-> value]

power_off == Request("Main.Power", "=", PBool(FALSE))
power_on == Request("Main.Power", "=", PBool(TRUE))
set_volume(volume) == Request("Main.Volume", "=", PFloat(volume))
volume_down == Request("Main.Volume", "-", PNone)
volume_up == Request("Main.Volume", "+", PNone)
mute == Request("Main.Mute", "=", PBool(TRUE))
unmute == Request("Main.Mute", "=", PBool(FALSE))
select_source(source) == Request("Main.Source", "=", PStr(<<W(source)>>))

\* The calls callers make while the receiver runs.
Calls == {power_on}

\* What a caller of exec_command gets: None, or the exception.
Completed(raise) ==
    <<[outcome |-> IF raise = "none" THEN "returned" ELSE raise, state |-> EmptyState]>>

\* A caller awaits exec_command or a facade verb: it runs to its end at once.
Exec(c) ==
    /\ LET r == ExecCommand(writer, eof_written, c.command, c.operator, c.value)
       IN /\ request' = <<c>>
          /\ written' = r.out
          /\ returned' = Completed(r.raise)
    /\ notified' = <<>>
    /\ UNCHANGED <<state, state_changed_cb, transport, connection_task,
                   cancel_requested, run_loop, waiters, debounce, trace,
                   disconnect_called>>

ExecCommandCall == \E c \in Calls : Exec(c)

Next ==
    \/ RunLoopStart
    \/ RunLoopResume
    \/ RunLoopRetry
    \/ ConnectOk
    \/ ConnectFail
    \/ ReadLine
    \/ ReadEof
    \/ ReadError
    \/ ReadCancelled
    \/ StateChanged
    \/ Disconnect
    \/ Status
    \/ StatusResume
    \/ StatusCancel
    \/ ExecCommandCall

Spec == Init /\ [][Next]_vars

----------------------------------------------------------------------------
\* The command grammar on its own: one exec_command call with any key, operator
\* and value, on a receiver that is connected, half-closed or not connected, and
\* the line it wrote read back by the read loop.

GrammarKeys == DOMAIN C338_CMDS \cup {"Main.Foo"}
GrammarOps == AllOps \cup {"*"}
GrammarNumbers == {-81, -80, -12, -2, -1, 0, 1, 2, 3, 4}
GrammarValues ==
    {PNone, PBool(TRUE), PBool(FALSE)}
        \cup {PInt(n) : n \in GrammarNumbers}
        \cup {PFloat(n) : n \in GrammarNumbers}
        \cup {PStr(<<W(t)>>) : t \in {"TV", "Opt2", "Radio", MSG_ON}}

Requests ==
    {Request(k, o, v) : k \in GrammarKeys, o \in GrammarOps, v \in GrammarValues}

GrammarInit ==
    /\ state = EmptyState
    /\ state_changed_cb \in BOOLEAN
    /\ writer \in BOOLEAN
    /\ eof_written \in {FALSE, writer}
    /\ can_write_eof = eof_written
    /\ connection_task = IF writer THEN "reading" ELSE "none"
    /\ cancel_requested = FALSE
    /\ run_loop = IF writer THEN "await" ELSE "new"
    /\ state_changed_waiter = "none"
    /\ awaiting = 0
    /\ replaced = [f \in FutureStates |-> 0]
    /\ state_changed_task = "none"
    /\ sleeping = 0
    /\ notified = <<>>
    /\ returned = <<>>
    /\ written = <<>>
    /\ request \in {<<c>> : c \in Requests}
    /\ trace = IF writer THEN <<"attempt", "open">> ELSE <<>>
    /\ burst = <<>>
    /\ disconnect_called = eof_written

\* The caller's exec_command call.
Execute ==
    /\ request # <<>>
    /\ returned = <<>>
    /\ Exec(request[1])

\* The device sends the line back and the read loop reads it.
ReadBack ==
    /\ written # <<>>
    /\ state = EmptyState
    /\ ReadData(written \o <<NL>>)

GrammarNext ==
    \/ Execute
    \/ ReadBack

GrammarSpec == GrammarInit /\ [][GrammarNext]_vars

----------------------------------------------------------------------------
\* Properties

Last(seq) == seq[Len(seq)]
HasValue(st, key, val) == key \in DOMAIN st /\ st[key] = val
MainQuery == <<W("Main"), W("?")>>

\* The debounce task fires (the session goes on); a session ends; an established
\* session ends.
Fired == sleeping' = sleeping - 1 /\ connection_task' = connection_task
Ended == connection_task \in {"connecting", "reading"} /\ connection_task' \in Done
Dropped == connection_task = "reading" /\ connection_task' \in Done

\* What a line of the device is to write: key -> value.
Writes(line) ==
    IF line[1] = W("Main.Volume")
    THEN [k \in {"Main.Volume", "Main.Mute"} |->
             IF k = "Main.Volume" THEN PFloat(line[3].int) ELSE PBool(FALSE)]
    ELSE [k \in {"Main.Mute"} |-> PBool(line[3] = W(MSG_ON))]

\* snapshot holds, for every line of lines, what the line wrote unless a later
\* line wrote the same key.
Aggregated(lines, snapshot) ==
    \A i \in DOMAIN lines : \A k \in DOMAIN Writes(lines[i]) :
        \/ HasValue(snapshot, k, Writes(lines[i])[k])
        \/ \E j \in DOMAIN lines : j > i /\ k \in DOMAIN Writes(lines[j])

\* C1: right after an inbound Main.Volume=<v> line is applied, whatever Main.Mute
\* was, the state has Main.Volume = v and Main.Mute = false, and a notification
\* that follows the line is given the volume together with the mute reset.
C1_VolumeUnmutes ==
    /\ [](\A n \in Volumes :
            (burst # <<>> /\ Last(burst) = VolumeLine(n)) =>
               /\ HasValue(state, "Main.Volume", PFloat(n))
               /\ HasValue(state, "Main.Mute", PBool(FALSE)))
    /\ [][\A n \in Volumes :
            (Fired /\ burst # <<>> /\ Last(burst) = VolumeLine(n)) =>
               \A i \in DOMAIN notified' :
                  /\ HasValue(notified'[i].state, "Main.Volume", PFloat(n))
                  /\ HasValue(notified'[i].state, "Main.Mute", PBool(FALSE))]_vars

C1_Witness ==
    /\ burst = <<MuteLine(MSG_ON), VolumeLine(-12)>>
    /\ HasValue(state, "Main.Mute", PBool(FALSE))

\* C2 as the specification states it: every burst (the lines applied under one debounce task) ends
\* with one invocation of the callback, given a state that holds the updates of
\* all its lines.
C2_EveryBurstNotified ==
    [][(burst # <<>> /\ burst' = <<>> /\ state_changed_cb) =>
          Len(notified') = 1 /\ Aggregated(burst, notified'[1].state)]_vars

\* C2 as the code has it: the lines applied while one debounce task is pending start no
\* second task and cause no notification of their own; when the task fires the
\* callback is invoked once, with a state that holds the updates of all the
\* lines, and the burst is over; when the session ends first the task is
\* cancelled and the only invocation is the one of the cleanup, with an empty
\* state.
C2_OneNotificationPerBurst ==
    /\ [](sleeping <= 1 /\ (burst # <<>> => sleeping = 1 /\ state_changed_task = "pending"))
    /\ [][(burst # <<>> /\ Len(burst') > Len(burst)) =>
             /\ notified' = <<>>
             /\ sleeping' = sleeping
             /\ SubSeq(burst', 1, Len(burst)) = burst]_vars
    /\ [][(Fired /\ state_changed_cb) =>
             /\ Len(notified') = 1
             /\ Aggregated(burst, notified'[1].state)
             /\ burst' = <<>>
             /\ sleeping' = 0]_vars
    /\ [][(Ended /\ burst # <<>> /\ state_changed_cb) =>
             /\ Len(notified') = 1
             /\ notified'[1].state = EmptyState
             /\ state_changed_task' = "cancelled"
             /\ burst' = <<>>
             /\ sleeping' = 0]_vars

C2_Witness ==
    /\ Len(burst) >= 2
    /\ sleeping = 1
    /\ Aggregated(burst, state)

\* C3 as the specification states it: every drop of an established session invokes the callback once
\* with an empty state.
C3_AlwaysNotified ==
    [][(Dropped /\ state_changed_cb) =>
          Len(notified') = 1 /\ notified'[1].state = EmptyState]_vars

\* C3 as the code has it: a drop of an established session invokes the callback once with
\* an empty state when the state held something, and not at all when the state
\* was empty (no line applied).
C3_NotifiedWhenNonEmpty ==
    [][(Dropped /\ state_changed_cb) =>
          IF state # EmptyState
          THEN Len(notified') = 1 /\ notified'[1].state = EmptyState /\ state' = EmptyState
          ELSE notified' = <<>>]_vars

C3_Witness ==
    /\ connection_task \in Done
    /\ Len(notified) = 1
    /\ notified[1].state = EmptyState

\* C4: a waiter pending when the session ends is cancelled by the cleanup, the
\* callback of the cleanup already finds it cancelled, and every status() call
\* suspended on it can resume.
C4_WaiterCancelled ==
    /\ [][(Ended /\ state_changed_waiter = "pending") =>
             /\ state_changed_waiter' = "cancelled"
             /\ \A i \in DOMAIN notified' : notified'[i].waiter = "cancelled"]_vars
    /\ []((awaiting > 0 /\ state_changed_waiter = "cancelled") => ENABLED StatusResume)

C4_Witness ==
    /\ connection_task \in Done
    /\ state_changed_waiter = "cancelled"
    /\ awaiting > 0
    /\ Len(notified) = 1
    /\ notified[1].waiter = "cancelled"

\* C5: no status() call is suspended on a pending future other than the one
\* _state_changed_waiter holds; a call made while that one is pending attaches
\* to it; the debounce task resolves it for all its callers at once.
C5_OneWaiter ==
    /\ [](replaced["pending"] = 0)
    /\ [][(state_changed_waiter = "pending" /\ awaiting' > awaiting) =>
             /\ state_changed_waiter' = "pending"
             /\ awaiting' = awaiting + 1
             /\ replaced' = replaced]_vars
    /\ [][(state_changed_waiter = "pending" /\ state_changed_waiter' = "resolved") =>
             Fired /\ awaiting' = awaiting]_vars

C5_Witness ==
    /\ awaiting = 2
    /\ state_changed_waiter = "resolved"

\* C6 as the specification states it: a status() call that attaches to a pending waiter on an open
\* connection writes no query.
C6_NoSecondQuery ==
    [][(state_changed_waiter = "pending" /\ awaiting >= 1 /\ writer
          /\ awaiting' = awaiting + 1) => written' = <<>>]_vars

\* C6 as the code has it: a status() call that attaches to a pending waiter on an open
\* connection creates no new waiter, and it does write its own 'Main?' query.
C6_QueryPerCall ==
    [][(state_changed_waiter = "pending" /\ awaiting >= 1 /\ writer
          /\ awaiting' = awaiting + 1) =>
             /\ written' = MainQuery
             /\ state_changed_waiter' = "pending"
             /\ replaced' = replaced]_vars

C6_Witness ==
    /\ writer
    /\ state_changed_waiter = "pending"
    /\ awaiting = 2
    /\ written = MainQuery

\* C7: k failed attempts and then a successful one are k + 1 attempts with a sleep
\* after each failure; an attempt starts only when no connection task is running;
\* the successful attempt writes 'Main?' before any line is read.  (A session that
\* failed counts as the failed attempt it is to run_loop.)
Attempted == IF trace # <<>> /\ trace[1] = "fail" THEN <<"attempt">> \o trace ELSE trace

RetriedUntilOpen(t) ==
    LET k == Count(t, "fail") IN
    /\ Len(t) = 3 * k + 2
    /\ \A j \in 0..(k - 1) :
          t[3 * j + 1] = "attempt" /\ t[3 * j + 2] = "fail" /\ t[3 * j + 3] = "sleep"
    /\ t[3 * k + 1] = "attempt"
    /\ t[3 * k + 2] = "open"

C7_Reconnect ==
    /\ [](connection_task = "reading" => RetriedUntilOpen(Attempted))
    /\ [][(trace' # trace /\ trace' # <<>> /\ Last(trace') = "attempt") =>
             connection_task \notin {"connecting", "reading"}]_vars
    /\ [][(connection_task = "connecting" /\ connection_task' = "reading") =>
             written' = MainQuery /\ burst' = <<>> /\ state' = EmptyState]_vars

C7_Witness ==
    /\ connection_task = "reading"
    /\ trace = <<"attempt", "fail", "sleep", "attempt", "fail", "sleep",
                 "attempt", "fail", "sleep", "attempt", "open">>
    /\ written = MainQuery

\* C8: after a session that ended at end-of-stream run_loop returns and no
\* connection task is created any more; run_loop sleeps for a retry only after a
\* recoverable transport error.
C8_EofStops ==
    /\ [](connection_task = "returned" => run_loop \in {"await", "returned"})
    /\ [][connection_task = "returned" => connection_task' = "returned"]_vars
    /\ [][(run_loop' = "sleep" /\ run_loop # "sleep") =>
             connection_task \in Recoverable]_vars

C8_Witness ==
    /\ connection_task = "returned"
    /\ run_loop = "returned"
    /\ ~disconnect_called

\* C9: once disconnect() was called no connection attempt is started.
C9_NoAttemptAfterDisconnect ==
    [][(disconnect_called /\ connection_task' = "connecting") =>
          connection_task = "connecting"]_vars

\* C10 as the specification states it: a session cancelled by disconnect() does not let run_loop
\* return normally.
C10_CancellationPropagates ==
    connection_task = "cancelled" => run_loop # "returned"

\* C10 as the code has it: after a session cancelled by disconnect(), run_loop returns
\* normally (the cancellation is not propagated) and starts no further attempt.
C10_CancellationSwallowed ==
    /\ [](connection_task = "cancelled" => run_loop \in {"await", "returned"})
    /\ [][connection_task = "cancelled" => connection_task' = "cancelled"]_vars

C10_Witness ==
    /\ connection_task = "cancelled"
    /\ run_loop = "returned"

\* C11: a valid command issued while no connection is open writes nothing, raises
\* nothing and changes nothing; and every text written in a step in which no
\* caller issued a command is a 'Main?' query: the seed query of a connection
\* that has just opened, or the query of a status() call on an open connection.
C11_DroppedWhenDown ==
    /\ []((request # <<>> /\ ~writer) =>
             written = <<>> /\ returned = Completed("none"))
    /\ [][request' # <<>> =>
             UNCHANGED <<state, transport, connection_task, cancel_requested,
                         run_loop, waiters, debounce, trace>>]_vars
    /\ [][(written' # <<>> /\ request' = <<>>) =>
             /\ written' = MainQuery
             /\ \/ connection_task = "connecting" /\ connection_task' = "reading"
                \/ writer /\ state_changed_waiter' = "pending" /\ awaiting' > 0]_vars

C11_Witness ==
    /\ request = <<power_on>>
    /\ ~writer
    /\ connection_task \in Recoverable
    /\ written = <<>>
    /\ returned = Completed("none")

\* The number a Python value compares equal to (True == 1, False == 0).
NumberOf(val) == IF val.ty = "bool" THEN (IF val.v THEN 1 ELSE 0) ELSE val.v

\* A value that is no member of the enumerated domain of a key that is not a
\* boolean key.
OutsideDomain(desc, val) ==
    /\ HasValues(desc)
    /\ ~(HasType(desc) /\ desc.type = "bool")
    /\ IF HasType(desc)
       THEN val.ty = "str" \/ NumberOf(val) \notin desc.values
       ELSE val.ty # "str" \/ \A i \in 1..Len(desc.values) : val.v # <<W(desc.values[i])>>

\* The ways the call c to a registered key breaks the grammar.
Invalid(c) ==
    LET desc == C338_CMDS[c.command] IN
    \/ c.operator \in {"?", "+", "-"} /\ c.value # PNone
    \/ c.operator = "=" /\ c.value = PNone
    \/ c.operator \notin desc.supported_operators
    \/ c.value # PNone /\ OutsideDomain(desc, c.value)

\* C12: on an open connection, an exec_command call to a registered key with a
\* value next to '?', '+' or '-', with '=' and no value, with an operator the key
\* does not support, or with a value outside the enumerated domain of a
\* non-boolean key raises ValueError and writes nothing.
C12_InvalidRejected ==
    \A c \in Requests :
        (/\ request = <<c>>
         /\ returned # <<>>
         /\ writer
         /\ c.command \in DOMAIN C338_CMDS
         /\ Invalid(c)) =>
            returned = Completed("ValueError") /\ written = <<>>

C12_Witness ==
    /\ request = <<select_source("Radio")>>
    /\ writer
    /\ ~eof_written
    /\ returned = Completed("ValueError")
    /\ written = <<>>

\* C13: an exec_command call that breaks the grammar (unregistered key,
\* unsupported operator, missing or unexpected value, value outside the domain)
\* raises to its caller, whether or not a connection is open.
C13_InvalidAlwaysRaises ==
    \A c \in Requests :
        (/\ request = <<c>>
         /\ returned # <<>>
         /\ (c.command \notin DOMAIN C338_CMDS \/ Invalid(c))) =>
            returned[1].outcome \in {"ValueError", "KeyError"}

\* C14: no line the device sends ends the session or run_loop with an exception
\* of _parse_data: a line that cannot be handled is dropped, the state is left as
\* it was and the read loop goes on.
ParseErrors == {"ValueError", "KeyError"}

C14_BadLineDropped ==
    /\ [][connection_task = "reading" => connection_task' \notin ParseErrors]_vars
    /\ [](run_loop \notin ParseErrors)

\* Python's == on the values: numbers (and booleans) by their number, strings by
\* their text.
PyEq(a, b) ==
    IF a.ty = "str" \/ b.ty = "str" THEN a.ty = b.ty /\ a.v = b.v
    ELSE NumberOf(a) = NumberOf(b)

\* C15: when the line exec_command wrote for an accepted '=' command is read
\* back, _parse_data stores under the key a value equal to the one the caller
\* gave.
C15_RoundTrip ==
    [][\A c \in Requests :
          (/\ request = <<c>>
           /\ c.operator = "="
           /\ written # <<>>
           /\ connection_task = "reading") =>
              /\ connection_task' = "reading"
              /\ c.command \in DOMAIN state'
              /\ PyEq(state'[c.command], c.value)]_vars

\* C16: on an open connection set_volume(v) is accepted and writes the assignment
\* of v to Main.Volume for every integer v from -80 to 0, both included, and is
\* rejected with ValueError for every other v.
C16_VolumeRange ==
    \A v \in GrammarNumbers :
        (/\ request = <<set_volume(v)>>
         /\ returned # <<>>
         /\ writer
         /\ ~eof_written) =>
            IF -80 <= v /\ v <= 0
            THEN /\ returned = Completed("none")
                 /\ Len(written) = 3
                 /\ SubSeq(written, 1, 2) = <<W("Main.Volume"), W("=")>>
                 /\ ToFloat(<<written[3]>>) = [ok |-> TRUE, v |-> PFloat(v)]
            ELSE returned = Completed("ValueError") /\ written = <<>>

\* C17: a status() call made while no connection is open writes nothing, and a
\* connection attempt that fails leaves the waiter it is suspended on pending.
C17_PendingWhileDown ==
    /\ [][(~writer /\ awaiting' > awaiting) =>
             written' = <<>> /\ state_changed_waiter' = "pending"]_vars
    /\ [][(/\ ~writer
           /\ state_changed_waiter = "pending"
           /\ awaiting > 0
           /\ connection_task = "connecting"
           /\ connection_task' \in Recoverable) =>
              state_changed_waiter' = "pending"]_vars

\* C18: a status() call on an open connection writes its query and suspends on a
\* pending waiter; once a line is applied the debounce task is there to fire;
\* when it fires the callback, if there is one, is given the whole current state
\* and finds the waiter still pending, and then the waiter is resolved; a call
\* suspended on a resolved waiter can resume, and resuming (its task not
\* cancelled meanwhile) it returns the current state.
C18_StatusResolved ==
    /\ [][(writer /\ ~eof_written /\ awaiting' > awaiting) =>
             written' = MainQuery /\ state_changed_waiter' = "pending"]_vars
    /\ []((connection_task = "reading" /\ burst # <<>>) => ENABLED StateChanged)
    /\ [][(Fired /\ state_changed_waiter = "pending") =>
             /\ state_changed_cb => notified' = <<[state |-> state, waiter |-> "pending"]>>
             /\ state_changed_waiter' = "resolved"
             /\ state' = state]_vars
    /\ []((state_changed_waiter = "resolved" /\ awaiting > 0) => ENABLED StatusResume)
    /\ [][(/\ state_changed_waiter = "resolved"
           /\ awaiting' = awaiting - 1
           /\ StatusResume) =>
              returned' = <<[outcome |-> "returned", state |-> state]>>]_vars

C18_Witness ==
    /\ writer
    /\ request = <<>>
    /\ state_changed_waiter = "resolved"
    /\ Len(returned) = 1
    /\ returned[1].outcome = "returned"
    /\ returned[1].state = state
    /\ HasValue(state, "Main.Volume", PFloat(-12))

\* C19: whenever no session is open (no connection task yet, an attempt in
\* progress, a task that has ended in any way) the state is empty and there is no
\* writer.
C19_EmptyWhenDown ==
    connection_task # "reading" => state = EmptyState /\ ~writer

C19_Witness ==
    /\ connection_task \in ParseErrors
    /\ state = EmptyState
    /\ Len(notified) = 1
    /\ notified[1].state = EmptyState

\* C20: the cleanup of a session cancels its pending debounce task, so outside an
\* open session no debounce task is pending or sleeping; a callback given a
\* non-empty state and a resolution of the waiter happen only in an open session,
\* at the fire of a debounce task started by a line of that session.
C20_NoLateFire ==
    /\ [](connection_task # "reading" =>
             sleeping = 0 /\ state_changed_task # "pending" /\ burst = <<>>)
    /\ [][(Ended /\ state_changed_task = "pending") =>
             state_changed_task' = "cancelled" /\ sleeping' = 0]_vars
    /\ [][(\E i \in DOMAIN notified' : notified'[i].state # EmptyState) =>
             Fired /\ connection_task = "reading" /\ burst # <<>>]_vars
    /\ [][(state_changed_waiter' = "resolved" /\ state_changed_waiter # "resolved") =>
             Fired /\ connection_task = "reading" /\ burst # <<>>]_vars

C20_Witness ==
    /\ connection_task \in Done
    /\ state_changed_task = "cancelled"
    /\ sleeping = 0
    /\ Len(notified) = 1
    /\ notified[1].state = EmptyState
    /\ state_changed_waiter = "cancelled"

\* C21: every text handed to the transport ends with the line terminator.
C21_LineTerminated ==
    written # <<>> => Last(written) = NL

\* C22: when the debounce task fires, the waiter is None or still pending, and no
\* debounce task ends with InvalidStateError.
C22_ResolvesPendingOnly ==
    /\ [][Fired => state_changed_waiter \in {"none", "pending"}]_vars
    /\ [](state_changed_task # "failed")

\* C23: while two status() calls are suspended on the pending waiter, no step
\* other than the end of the session cancels the waiter: the cancellation of
\* one caller leaves the waiter of the other pending.
C23_OtherCallerUnaffected ==
    [][(/\ awaiting >= 2
        /\ state_changed_waiter = "pending"
        /\ connection_task' = connection_task) =>
           state_changed_waiter' # "cancelled"]_vars

====
